---- MODULE Spec2Model ----
\* Lending core of the library application (src/app.py): the Library class
\* with its books, members and transactions, driven by add_book, add_member,
\* issue_book and return_book, and the wall clock read through date.today();
\* the state file the route handlers write after each call; and the threads
\* of two requests that run at once.
EXTENDS Integers, Sequences, FiniteSets, TLC

VARIABLES books, members, transactions, fine_per_day, today, last, steps,
          disk, threads

vars == <<books, members, transactions, fine_per_day, today, last, steps,
          disk, threads>>

-----------------------------------------------------------------------------
\* Bounds of the exploration.

\* A run makes at most MaxSteps calls and day changes.
MaxSteps == 6
\* uuid4 gives at most MaxUuids values in a run.
MaxUuids == 3

\* issue_book's default loan period.
DefaultDays == 14

\* Library.__init__'s default fine_per_day.
DefaultFinePerDay == 1

ISBNs == {"", "978-1"}
CopiesChoices == {-1, 0, 1, 2}
DaysChoices == {0, DefaultDays}
FineRates == {1, 2}
\* The values uuid4 gives, for members and transactions alike, numbered in
\* the order it gives them; a caller may pass any of them as member_id or
\* txn_id, also before uuid4 has given it.
UUIDs == 1..MaxUuids
Names == {"Ann"}

\* Two descriptions a caller may pass for a book.
Descrs ==
    { [title |-> "T1", authors |-> <<"A1">>, pub_year |-> <<>>, tags |-> <<>>],
      [title |-> "T2", authors |-> <<"A2", "A3">>, pub_year |-> <<1999>>, tags |-> <<"x">>] }

-----------------------------------------------------------------------------
\* Python values.

\* None, and the absent value of an Optional field.
None == <<>>

\* Mutant of Truthy: the test of returned_on never fires.
Truthy_Never(x) == FALSE

\* bool(x) of an Optional[str]: None is falsy, an ISO date string is truthy.
Truthy(x) == x # None

\* "No exception was raised".
NoExc == [type |-> "None", msg |-> ""]

Max(a, b) == IF a >= b THEN a ELSE b

-----------------------------------------------------------------------------
\* datetime.date: ordinals, and the "YYYY-MM-DD" text as the triple <<y, m, d>>.

IsLeap(y) == y % 4 = 0 /\ (y % 100 # 0 \/ y % 400 = 0)

DaysBeforeYear(y) ==
    LET p == y - 1 IN p * 365 + (p \div 4) - (p \div 100) + (p \div 400)

DaysInMonth(y, m) ==
    IF m = 2 THEN (IF IsLeap(y) THEN 29 ELSE 28)
    ELSE IF m \in {4, 6, 9, 11} THEN 30 ELSE 31

RECURSIVE DaysBeforeMonth(_, _)
DaysBeforeMonth(y, m) ==
    IF m = 1 THEN 0 ELSE DaysBeforeMonth(y, m - 1) + DaysInMonth(y, m - 1)

\* date(y, m, d).toordinal()
Ymd2Ord(ymd) == DaysBeforeYear(ymd[1]) + DaysBeforeMonth(ymd[1], ymd[2]) + ymd[3]

\* date.fromordinal(n) as <<y, m, d>>
Ord2Ymd(n) ==
    LET n0   == n - 1
        n400 == n0 \div 146097
        r400 == n0 % 146097
        n100 == r400 \div 36524
        r100 == r400 % 36524
        n4   == r100 \div 1461
        r4   == r100 % 1461
        n1   == r4 \div 365
        r1   == r4 % 365
        year == n400 * 400 + 1 + n100 * 100 + n4 * 4 + n1
    IN  IF n1 = 4 \/ n100 = 4 THEN <<year - 1, 12, 31>>
        ELSE LET m0   == (r1 + 50) \div 32
                 pre0 == DaysBeforeMonth(year, m0)
                 m    == IF pre0 > r1 THEN m0 - 1 ELSE m0
                 pre  == DaysBeforeMonth(year, m)
             IN  <<year, m, r1 - pre + 1>>

\* The first day explored, 2024-02-27: the window crosses the leap day and a
\* month boundary.
StartOrdinal == Ymd2Ord(<<2024, 2, 27>>)

\* d.isoformat()
IsoFormat(n) == Ord2Ymd(n)

\* datetime.fromisoformat(s).date()
FromIso(s) == Ymd2Ord(s)

-----------------------------------------------------------------------------
\* The dataclasses.

Book(isbn, title, authors, total, available, pub_year, tags) ==
    [isbn |-> isbn, title |-> title, authors |-> authors,
     total_copies |-> total, available_copies |-> available,
     pub_year |-> pub_year, tags |-> tags]

Member(member_id, name, email, phone) ==
    [member_id |-> member_id, name |-> name, email |-> email, phone |-> phone,
     joined_on |-> IsoFormat(today)]

Transaction(txn_id, member_id, isbn, issued_on, due_on) ==
    [txn_id |-> txn_id, member_id |-> member_id, isbn |-> isbn,
     issued_on |-> issued_on, due_on |-> due_on,
     returned_on |-> None, fine_paid |-> 0]

-----------------------------------------------------------------------------
\* Library.

\* d[k] = v
Put(d, k, v) == (k :> v) @@ d

\* library_state.json does not exist.
NoFile == <<>>

NoThreads == <<>>

Init ==
    /\ disk = NoFile
    /\ threads = NoThreads
    /\ books = <<>>
    /\ members = <<>>
    /\ transactions = <<>>
    /\ fine_per_day \in FineRates
    /\ today = StartOrdinal
    /\ steps = 0
    /\ last = [op |-> "init", exc |-> NoExc, ret |-> None]

\* Mutant of Merged: the new quantity replaces the stock.
Merged_Replaced(b, copies) ==
    [b EXCEPT !.total_copies = copies, !.available_copies = copies]

\* b.total_copies += copies; b.available_copies += copies
Merged(b, copies) ==
    [b EXCEPT !.total_copies = @ + copies, !.available_copies = @ + copies]

\* self.books after add_book, as a function of self.books before it.
AddedBooks(bks, isbn, title, authors, copies, pub_year, tags) ==
    IF isbn \in DOMAIN bks
    THEN [bks EXCEPT ![isbn] = Merged(@, copies)]
    ELSE Put(bks, isbn, Book(isbn, title, authors, copies, copies, pub_year, tags))

add_book(isbn, title, authors, copies, pub_year, tags) ==
    /\ books' = AddedBooks(books, isbn, title, authors, copies, pub_year, tags)
    /\ last' = [op |-> "add_book", exc |-> NoExc, ret |-> None]
    /\ UNCHANGED <<members, transactions, fine_per_day, today>>

\* Mutant of uuid4: every call gives the same value.
uuid4_Fixed == {1}

\* str(uuid.uuid4()): a value no earlier call produced. The code never
\* inspects an id, so runs differ only by the names of the ids: the n-th call
\* gives the value numbered n. Members and transactions are never deleted,
\* so their number is the number of calls made.
\* A transaction a caller has built (line 72) and not yet stored (line 80)
\* has its id as well.
uuid4 ==
    LET unstored == {t \in DOMAIN threads : threads[t].pc \in {"79", "79w", "80"}}
        given == Cardinality(DOMAIN members) + Cardinality(DOMAIN transactions)
                   + Cardinality(unstored)
    IN  {id \in UUIDs : id = given + 1}

add_member(name, email, phone) ==
    \E id \in uuid4 :
        /\ members' = Put(members, id, Member(id, name, email, phone))
        /\ last' = [op |-> "add_member", exc |-> NoExc, ret |-> <<id>>]
        /\ UNCHANGED <<books, transactions, fine_per_day, today>>

\* raise Exception("Invalid member or book.")
InvalidMemberOrBook == [type |-> "Exception", msg |-> "Invalid member or book."]

\* raise Exception("Book not available.")
BookNotAvailable == [type |-> "Exception", msg |-> "Book not available."]

\* Mutant of Lent: the decrement is forgotten.
Lent_Forgotten(b) == b

\* b.available_copies -= 1
Lent(b) == [b EXCEPT !.available_copies = @ - 1]

\* Mutant of Known: only the book is looked up.
Known_BookOnly(member_id, isbn) == isbn \in DOMAIN books

\* not (isbn not in self.books or member_id not in self.members)
Known(member_id, isbn) == isbn \in DOMAIN books /\ member_id \in DOMAIN members

\* midnight: the date changes between the two date.today() calls of the
\* constructor arguments (lines 76 and 77).
issue_book(member_id, isbn, days, midnight) ==
    IF ~Known(member_id, isbn)
    THEN /\ ~midnight
         /\ last' = [op |-> "issue_book", exc |-> InvalidMemberOrBook, ret |-> None]
         /\ UNCHANGED <<books, members, transactions, fine_per_day, today>>
    ELSE IF books[isbn].available_copies <= 0
    THEN /\ ~midnight
         /\ last' = [op |-> "issue_book", exc |-> BookNotAvailable, ret |-> None]
         /\ UNCHANGED <<books, members, transactions, fine_per_day, today>>
    ELSE \E id \in uuid4 :
         LET today2 == IF midnight THEN today + 1 ELSE today
             txn == Transaction(id, member_id, isbn,
                                IsoFormat(today), IsoFormat(today2 + days))
         IN  /\ today' = today2
             /\ books' = [books EXCEPT ![isbn] = Lent(@)]
             /\ transactions' = Put(transactions, id, txn)
             /\ last' = [op |-> "issue_book", exc |-> NoExc, ret |-> <<id>>]
             /\ UNCHANGED <<members, fine_per_day>>

\* Mutant of KeyError: the lookup is guarded the way issue_book guards its own.
KeyError_Generic(key) == [type |-> "Exception", msg |-> "Invalid transaction."]

\* self.transactions[txn_id] of a missing key
KeyError(key) == [type |-> "KeyError", msg |-> ToString(key)]

\* raise Exception("Already returned.")
AlreadyReturned == [type |-> "Exception", msg |-> "Already returned."]

\* Mutant of Fine: one day's rate, however late.
Fine_Flat(now, due, rate) == IF now > due THEN rate ELSE 0

\* Mutant of Fine: the due day itself is charged.
Fine_DueDayCharged(now, due, rate) ==
    IF now >= due THEN Max(0, now - due + 1) * rate ELSE 0

\* max(0, (today - due).days) * self.fine_per_day if today > due else 0
Fine(now, due, rate) == IF now > due THEN Max(0, now - due) * rate ELSE 0

\* Mutant of Restored: the shelf is reset to the full stock.
Restored_Reset(b) == [b EXCEPT !.available_copies = b.total_copies]

\* self.books[t.isbn].available_copies += 1
Restored(b) == [b EXCEPT !.available_copies = @ + 1]

return_book(txn_id) ==
    IF txn_id \notin DOMAIN transactions
    THEN /\ last' = [op |-> "return_book", exc |-> KeyError(txn_id), ret |-> None]
         /\ UNCHANGED <<books, members, transactions, fine_per_day, today>>
    ELSE LET t == transactions[txn_id] IN
         IF Truthy(t.returned_on)
         THEN /\ last' = [op |-> "return_book", exc |-> AlreadyReturned, ret |-> None]
              /\ UNCHANGED <<books, members, transactions, fine_per_day, today>>
         ELSE LET due  == FromIso(t.due_on)
                  fine == Fine(today, due, fine_per_day)
              IN  /\ transactions' = [transactions EXCEPT
                                        ![txn_id].returned_on = IsoFormat(today),
                                        ![txn_id].fine_paid = fine]
                  /\ IF t.isbn \in DOMAIN books
                     THEN /\ books' = [books EXCEPT ![t.isbn] = Restored(@)]
                          /\ last' = [op |-> "return_book", exc |-> NoExc, ret |-> <<fine>>]
                     ELSE /\ books' = books
                          /\ last' = [op |-> "return_book", exc |-> KeyError(t.isbn),
                                      ret |-> None]
                  /\ UNCHANGED <<members, fine_per_day, today>>

\* A day passes between two calls.
Tick ==
    /\ steps < MaxSteps
    /\ steps' = steps + 1
    /\ today' = today + 1
    /\ UNCHANGED <<books, members, transactions, fine_per_day, last, disk, threads>>

\* One more call fits the run.
Call == steps < MaxSteps /\ steps' = steps + 1

\* A call of the Library itself: no handler, no file, one caller.
Direct == UNCHANGED <<disk, threads>>

AddBook ==
    /\ Call /\ Direct
    /\ \E isbn \in ISBNs, d \in Descrs, copies \in CopiesChoices :
        add_book(isbn, d.title, d.authors, copies, d.pub_year, d.tags)

AddMember == Call /\ Direct /\ \E name \in Names : add_member(name, None, None)

IssueBook ==
    /\ Call /\ Direct
    /\ \E member_id \in UUIDs, isbn \in ISBNs, days \in DaysChoices, midnight \in BOOLEAN :
        issue_book(member_id, isbn, days, midnight)

ReturnBook == Call /\ Direct /\ \E txn_id \in UUIDs : return_book(txn_id)

Next == AddBook \/ AddMember \/ IssueBook \/ ReturnBook \/ Tick

Spec == Init /\ [][Next]_vars

-----------------------------------------------------------------------------
\* Persistence.

\* Mutant of to_dict: the transactions are left out of the document.
to_dict_NoTransactions(bks, mbs, txs) ==
    [books |-> [i \in DOMAIN bks |-> bks[i]],
     members |-> [m \in DOMAIN mbs |-> mbs[m]],
     transactions |-> <<>>]

\* Library.to_dict: the three collections, each entity as asdict gives it.
\* fine_per_day is not part of the document.
to_dict(bks, mbs, txs) ==
    [books |-> [i \in DOMAIN bks |-> bks[i]],
     members |-> [m \in DOMAIN mbs |-> mbs[m]],
     transactions |-> [t \in DOMAIN txs |-> txs[t]]]

\* Library.save: the file holds the document, whatever it held before.
save(bks, mbs, txs) == <<to_dict(bks, mbs, txs)>>

\* Library.load: cls() and, if the file exists, the entities rebuilt field
\* by field from its three collections.
load(file) ==
    LET data == IF file = NoFile
                THEN [books |-> <<>>, members |-> <<>>, transactions |-> <<>>]
                ELSE file[1]
    IN  [books |-> [i \in DOMAIN data.books |->
                      LET b == data.books[i]
                      IN  Book(b.isbn, b.title, b.authors, b.total_copies,
                               b.available_copies, b.pub_year, b.tags)],
         members |-> [m \in DOMAIN data.members |->
                      LET x == data.members[m]
                      IN  [member_id |-> x.member_id, name |-> x.name, email |-> x.email,
                           phone |-> x.phone, joined_on |-> x.joined_on]],
         transactions |-> [t \in DOMAIN data.transactions |->
                      LET x == data.transactions[t]
                      IN  [txn_id |-> x.txn_id, member_id |-> x.member_id, isbn |-> x.isbn,
                           issued_on |-> x.issued_on, due_on |-> x.due_on,
                           returned_on |-> x.returned_on, fine_paid |-> x.fine_paid]],
         fine_per_day |-> DefaultFinePerDay]

-----------------------------------------------------------------------------
\* The route handlers, one request at a time: the call, then lib.save()
\* unless the call raised.

\* lib.save() after the call, skipped by the except clause
Saved == disk' = IF last'.exc = NoExc THEN save(books', members', transactions') ELSE disk

\* A request is handled by the one global lib.
Request == Call /\ UNCHANGED threads

\* POST /add_book: pub_year and tags are not passed on.
route_add_book(isbn, title, authors, copies) ==
    add_book(isbn, title, authors, copies, None, None) /\ Saved

\* POST /add_member
route_add_member(name, email, phone) == add_member(name, email, phone) /\ Saved

\* POST /issue: the loan period is the default.
route_issue(mid, isbn, midnight) == issue_book(mid, isbn, DefaultDays, midnight) /\ Saved

\* POST /return
route_return(txn_id) == return_book(txn_id) /\ Saved

PostAddBook ==
    /\ Request
    /\ \E isbn \in ISBNs, d \in Descrs, copies \in CopiesChoices :
        route_add_book(isbn, d.title, d.authors, copies)

PostAddMember == Request /\ \E name \in Names : route_add_member(name, None, None)

PostIssue ==
    /\ Request
    /\ \E mid \in UUIDs, isbn \in ISBNs, midnight \in BOOLEAN : route_issue(mid, isbn, midnight)

PostReturn == Request /\ \E txn_id \in UUIDs : route_return(txn_id)

\* lib = Library.load() with no state file: fine_per_day is the default.
InitApp == Init /\ fine_per_day = DefaultFinePerDay

NextApp == PostAddBook \/ PostAddMember \/ PostIssue \/ PostReturn \/ Tick

SpecApp == InitApp /\ [][NextApp]_vars

-----------------------------------------------------------------------------
\* Two requests at once. app.run serves each request on a thread of its own
\* and the handlers share the global lib without a lock, so the calls
\* interleave between any two of their reads and writes of lib. A thread
\* is at the line (pc) it executes next; "79" and "92" read
\* available_copies, "79w" and "92w" write it.

Threads == {1, 2}

\* The frame of a handler about to call lib: its arguments, no locals yet.
Thread(op, member_id, isbn, txn_id, line) ==
    [op |-> op, member_id |-> member_id, isbn |-> isbn, txn_id |-> txn_id,
     pc |-> line, txn |-> None, avail |-> None, now |-> None, fine |-> None,
     exc |-> NoExc]

\* POST /issue and POST /return as they enter lib.issue_book and
\* lib.return_book.
Requests ==
    {Thread("issue_book", m, isbn, 0, "67") : m \in UUIDs, isbn \in ISBNs}
      \cup {Thread("return_book", 0, "", id, "84") : id \in UUIDs}

\* The catalog when the two requests arrive: one title with one copy on the
\* shelf, none or one more on loan to the one member.
InitRace ==
    /\ fine_per_day = DefaultFinePerDay
    /\ today = StartOrdinal
    /\ steps = 0
    /\ last = [op |-> "init", exc |-> NoExc, ret |-> None]
    /\ \E total \in {1, 2} :
        /\ books = Put(<<>>, "978-1", Book("978-1", "T1", <<"A1">>, total, 1, None, None))
        /\ members = Put(<<>>, 1, Member(1, "Ann", None, None))
        /\ transactions =
             IF total = 1 THEN <<>>
             ELSE Put(<<>>, 2, Transaction(2, 1, "978-1", IsoFormat(StartOrdinal),
                                           IsoFormat(StartOrdinal + DefaultDays)))
    /\ disk = save(books, members, transactions)
    /\ threads \in [Threads -> Requests]

\* Thread t executes this line next.
At(t, line) == threads[t].pc = line

\* raise: the handler's except clause flashes the message; no save.
Raise(t, exc) ==
    /\ threads' = [threads EXCEPT ![t].pc = "done", ![t].exc = exc]
    /\ UNCHANGED <<books, transactions, disk>>

\* if isbn not in self.books or member_id not in self.members: raise
issue_67(t) ==
    /\ At(t, "67")
    /\ IF ~Known(threads[t].member_id, threads[t].isbn)
       THEN Raise(t, InvalidMemberOrBook)
       ELSE /\ threads' = [threads EXCEPT ![t].pc = "70"]
            /\ UNCHANGED <<books, transactions, disk>>

\* b = self.books[isbn]; if b.available_copies <= 0: raise
issue_70(t) ==
    /\ At(t, "70")
    /\ IF books[threads[t].isbn].available_copies <= 0
       THEN Raise(t, BookNotAvailable)
       ELSE /\ threads' = [threads EXCEPT ![t].pc = "72"]
            /\ UNCHANGED <<books, transactions, disk>>

\* txn = Transaction(...), the date read on one day
issue_72(t) ==
    /\ At(t, "72")
    /\ \E id \in uuid4 :
        LET txn == Transaction(id, threads[t].member_id, threads[t].isbn,
                               IsoFormat(today), IsoFormat(today + DefaultDays))
        IN  threads' = [threads EXCEPT ![t].pc = "79", ![t].txn = <<txn>>]
    /\ UNCHANGED <<books, transactions, disk>>

\* b.available_copies -= 1, the read
issue_79(t) ==
    /\ At(t, "79")
    /\ threads' = [threads EXCEPT ![t].pc = "79w",
                     ![t].avail = <<books[threads[t].isbn].available_copies>>]
    /\ UNCHANGED <<books, transactions, disk>>

\* b.available_copies -= 1, the write of the value read less 1
issue_79w(t) ==
    /\ At(t, "79w")
    /\ books' = [books EXCEPT ![threads[t].isbn] =
                   Lent([@ EXCEPT !.available_copies = threads[t].avail[1]])]
    /\ threads' = [threads EXCEPT ![t].pc = "80"]
    /\ UNCHANGED <<transactions, disk>>

\* self.transactions[txn.txn_id] = txn; return txn
issue_80(t) ==
    /\ At(t, "80")
    /\ transactions' = Put(transactions, threads[t].txn[1].txn_id, threads[t].txn[1])
    /\ threads' = [threads EXCEPT ![t].pc = "save"]
    /\ UNCHANGED <<books, disk>>

\* t = self.transactions[txn_id]
return_84(t) ==
    /\ At(t, "84")
    /\ IF threads[t].txn_id \notin DOMAIN transactions
       THEN Raise(t, KeyError(threads[t].txn_id))
       ELSE /\ threads' = [threads EXCEPT ![t].pc = "85"]
            /\ UNCHANGED <<books, transactions, disk>>

\* if t.returned_on: raise
return_85(t) ==
    /\ At(t, "85")
    /\ IF Truthy(transactions[threads[t].txn_id].returned_on)
       THEN Raise(t, AlreadyReturned)
       ELSE /\ threads' = [threads EXCEPT ![t].pc = "87"]
            /\ UNCHANGED <<books, transactions, disk>>

\* today = date.today(); due = ...; fine = ... (due_on and fine_per_day are
\* never written)
return_87(t) ==
    /\ At(t, "87")
    /\ LET due == FromIso(transactions[threads[t].txn_id].due_on)
       IN  threads' = [threads EXCEPT ![t].pc = "90", ![t].now = <<today>>,
                         ![t].fine = <<Fine(today, due, fine_per_day)>>]
    /\ UNCHANGED <<books, transactions, disk>>

\* t.returned_on = today.isoformat()
return_90(t) ==
    /\ At(t, "90")
    /\ transactions' = [transactions EXCEPT
                          ![threads[t].txn_id].returned_on = IsoFormat(threads[t].now[1])]
    /\ threads' = [threads EXCEPT ![t].pc = "91"]
    /\ UNCHANGED <<books, disk>>

\* t.fine_paid = fine
return_91(t) ==
    /\ At(t, "91")
    /\ transactions' = [transactions EXCEPT
                          ![threads[t].txn_id].fine_paid = threads[t].fine[1]]
    /\ threads' = [threads EXCEPT ![t].pc = "92"]
    /\ UNCHANGED <<books, disk>>

\* self.books[t.isbn].available_copies += 1, the lookup and the read
return_92(t) ==
    /\ At(t, "92")
    /\ LET isbn == transactions[threads[t].txn_id].isbn IN
       IF isbn \notin DOMAIN books
       THEN Raise(t, KeyError(isbn))
       ELSE /\ threads' = [threads EXCEPT ![t].pc = "92w", ![t].isbn = isbn,
                             ![t].avail = <<books[isbn].available_copies>>]
            /\ UNCHANGED <<books, transactions, disk>>

\* self.books[t.isbn].available_copies += 1, the write of the value read
\* plus 1; return fine
return_92w(t) ==
    /\ At(t, "92w")
    /\ books' = [books EXCEPT ![threads[t].isbn] =
                   Restored([@ EXCEPT !.available_copies = threads[t].avail[1]])]
    /\ threads' = [threads EXCEPT ![t].pc = "save"]
    /\ UNCHANGED <<transactions, disk>>

\* lib.save() of the handler, then its response
route_save(t) ==
    /\ At(t, "save")
    /\ disk' = save(books, members, transactions)
    /\ threads' = [threads EXCEPT ![t].pc = "done"]
    /\ UNCHANGED <<books, transactions>>

\* What no thread writes while the two requests run.
Concurrent == UNCHANGED <<members, fine_per_day, today, last, steps>>

IssueStep ==
    /\ Concurrent
    /\ \E t \in Threads :
        \/ issue_67(t) \/ issue_70(t) \/ issue_72(t)
        \/ issue_79(t) \/ issue_79w(t) \/ issue_80(t)

ReturnStep ==
    /\ Concurrent
    /\ \E t \in Threads :
        \/ return_84(t) \/ return_85(t) \/ return_87(t) \/ return_90(t)
        \/ return_91(t) \/ return_92(t) \/ return_92w(t)

SaveStep == Concurrent /\ \E t \in Threads : route_save(t)

NextRace == IssueStep \/ ReturnStep \/ SaveStep

SpecRace == InitRace /\ [][NextRace]_vars

\* lib.issue_book or lib.return_book of thread t has returned.
Succeeded(t) == threads[t].pc \in {"save", "done"} /\ threads[t].exc = NoExc

\* The handler of thread t has answered.
Finished(t) == threads[t].pc = "done"

-----------------------------------------------------------------------------
\* Vocabulary of the properties.

IsOpen(t) == t.returned_on = None

\* The transactions for an ISBN with no return recorded.
OpenTxns(isbn) ==
    {id \in DOMAIN transactions :
        transactions[id].isbn = isbn /\ IsOpen(transactions[id])}

\* The kinds of the error taxonomy are told apart by the class of the
\* exception, which is what an except clause selects on, never by the message.
SameKind(e1, e2) == e1.type = e2.type

Failed(l) == l.exc # NoExc

-----------------------------------------------------------------------------
\* C1: in every reachable state, every book's available_copies equals its
\* total_copies minus the number of open transactions for its ISBN.
C1_AvailableReconciles ==
    \A isbn \in DOMAIN books :
        books[isbn].available_copies =
            books[isbn].total_copies - Cardinality(OpenTxns(isbn))

\* A book with one copy out and one copy on the shelf, after a return.
C1_Witness ==
    \E isbn \in DOMAIN books :
        /\ Cardinality(OpenTxns(isbn)) = 1
        /\ books[isbn].available_copies = 1
        /\ last.op = "return_book"
        /\ ~Failed(last)

\* C2 (as claimed): every book satisfies 0 <= available_copies <= total_copies
\* in every reachable state. add_book accepts copies < 1, so it fails.
C2_CopiesInRange ==
    \A isbn \in DOMAIN books :
        /\ 0 <= books[isbn].available_copies
        /\ books[isbn].available_copies <= books[isbn].total_copies

-----------------------------------------------------------------------------
\* C3 (as claimed): issue_book for an existing member and an existing book
\* with available_copies = 0 fails with the kind Unavailable, a kind of its
\* own, and leaves books, members and transactions as they were. The code
\* raises the class it raises for an unknown member or book.
C3_UnavailableKind ==
    [][\A m \in DOMAIN members, isbn \in DOMAIN books, days \in DaysChoices :
          (books[isbn].available_copies = 0 /\ Call /\ issue_book(m, isbn, days, FALSE))
          => /\ Failed(last')
             /\ ~SameKind(last'.exc, InvalidMemberOrBook)
             /\ UNCHANGED <<books, members, transactions>>]_vars

\* C4 (as claimed): issue_book with an unknown member_id or an unknown isbn
\* fails with the kind NotFound, which differs from the kind of the
\* Unavailable failure, changes no book and creates no transaction.
C4_NotFoundKind ==
    [][\A m \in UUIDs, isbn \in ISBNs, days \in DaysChoices :
          ((m \notin DOMAIN members \/ isbn \notin DOMAIN books)
              /\ Call /\ issue_book(m, isbn, days, FALSE))
          => /\ Failed(last')
             /\ ~SameKind(last'.exc, BookNotAvailable)
             /\ UNCHANGED <<books, transactions>>]_vars

\* C5 (as claimed): return_book of a transaction that is already returned
\* fails with the kind AlreadyReturned, a kind of its own, and changes
\* neither the transaction nor the book.
C5_AlreadyReturnedKind ==
    [][\A id \in DOMAIN transactions :
          (~IsOpen(transactions[id]) /\ Call /\ return_book(id))
          => /\ Failed(last')
             /\ ~SameKind(last'.exc, BookNotAvailable)
             /\ ~SameKind(last'.exc, InvalidMemberOrBook)
             /\ ~SameKind(last'.exc, KeyError(id))
             /\ UNCHANGED <<books, transactions>>]_vars

\* C6: return_book with a txn_id that is not in transactions fails with a
\* kind of its own (KeyError, the lookup's not-found error, which is not the
\* class of the already-returned failure) and leaves books, members and
\* transactions unchanged.
C6_UnknownTxnNotFound ==
    [][\A id \in UUIDs :
          (id \notin DOMAIN transactions /\ Call /\ return_book(id))
          => /\ Failed(last')
             /\ last'.ret = None
             /\ ~SameKind(last'.exc, AlreadyReturned)
             /\ UNCHANGED <<books, members, transactions, fine_per_day>>]_vars

\* An unknown txn_id was refused while the catalog holds a book, a member
\* and a transaction.
C6_Witness ==
    /\ last.op = "return_book"
    /\ last.exc.type = "KeyError"
    /\ books # <<>> /\ members # <<>> /\ transactions # <<>>

\* C7 (as claimed): add_book with copies < 1 or an empty isbn fails and
\* leaves the catalog unchanged. The code validates neither.
C7_InvalidArgument ==
    [][\A isbn \in ISBNs, d \in Descrs, copies \in CopiesChoices :
          ((copies < 1 \/ isbn = "")
              /\ Call /\ add_book(isbn, d.title, d.authors, copies, d.pub_year, d.tags))
          => /\ Failed(last')
             /\ books' = books]_vars

-----------------------------------------------------------------------------
\* Calendar days, counted on the ISO dates themselves.

\* a is an earlier date than b.
Before(a, b) ==
    \/ a[1] < b[1]
    \/ a[1] = b[1] /\ a[2] < b[2]
    \/ a[1] = b[1] /\ a[2] = b[2] /\ a[3] < b[3]

NextDay(a) ==
    IF a[3] < DaysInMonth(a[1], a[2]) THEN <<a[1], a[2], a[3] + 1>>
    ELSE IF a[2] < 12 THEN <<a[1], a[2] + 1, 1>>
    ELSE <<a[1] + 1, 1, 1>>

\* max(0, b - a) in calendar days.
RECURSIVE DaysAfter(_, _)
DaysAfter(a, b) == IF Before(a, b) THEN 1 + DaysAfter(NextDay(a), b) ELSE 0

\* C8: return_book of an open transaction returns and stores
\* max(0, return date - due_on in calendar days) * fine_per_day, a value
\* fixed by due_on, the return date and fine_per_day alone: 0 on or before
\* the due date, fine_per_day one day after it.
C8_FineRule ==
    [][\A id \in DOMAIN transactions :
          (IsOpen(transactions[id]) /\ Call /\ return_book(id))
          => LET t    == transactions'[id]
                 late == DaysAfter(transactions[id].due_on, t.returned_on)
             IN  /\ t.returned_on # None
                 /\ t.fine_paid = late * fine_per_day
                 /\ last'.ret = <<late * fine_per_day>>
                 /\ (~Before(transactions[id].due_on, t.returned_on) => t.fine_paid = 0)
                 /\ (t.returned_on = NextDay(transactions[id].due_on)
                        => t.fine_paid = fine_per_day)]_vars

\* A loan issued the day before its due date was returned one day late and
\* charged one day's fine.
C8_Witness ==
    \E id \in DOMAIN transactions :
        LET t == transactions[id] IN
        /\ last.op = "return_book"
        /\ t.returned_on = NextDay(t.due_on)
        /\ t.issued_on # t.due_on
        /\ t.fine_paid = fine_per_day
        /\ last.ret = <<fine_per_day>>
        /\ fine_per_day = 2

\* C9: a transaction appears only through issue_book and appears open; it is
\* never removed; once returned_on is set, returned_on and fine_paid keep
\* their values in every later step.
C9_TxnLifecycle ==
    [][/\ \A id \in DOMAIN transactions :
            /\ id \in DOMAIN transactions'
            /\ ~IsOpen(transactions[id])
                 => /\ transactions'[id].returned_on = transactions[id].returned_on
                    /\ transactions'[id].fine_paid = transactions[id].fine_paid
       /\ \A id \in DOMAIN transactions' \ DOMAIN transactions :
            /\ IsOpen(transactions'[id])
            /\ transactions'[id].fine_paid = 0
            /\ last'.op = "issue_book"]_vars

\* A transaction returned on an earlier day was presented for return again.
C9_Witness ==
    \E id \in DOMAIN transactions :
        /\ ~IsOpen(transactions[id])
        /\ Before(transactions[id].returned_on, IsoFormat(today))
        /\ last.op = "return_book"
        /\ last.exc = AlreadyReturned

\* C10: a successful issue_book takes 1 from the available_copies of the
\* named book alone and adds one open transaction under a new txn_id; a
\* successful return_book gives 1 back to the book of that transaction alone
\* and closes that transaction alone; every other book, every member, every
\* other transaction, every total_copies and fine_per_day stay as they were.
C10_Frame ==
    [][/\ \A m \in DOMAIN members, isbn \in DOMAIN books,
             days \in DaysChoices, midnight \in BOOLEAN :
            (last'.op = "issue_book" /\ ~Failed(last')
                /\ Call /\ issue_book(m, isbn, days, midnight))
            => /\ DOMAIN books' = DOMAIN books
               /\ books'[isbn] = [books[isbn] EXCEPT !.available_copies = @ - 1]
               /\ \A other \in DOMAIN books \ {isbn} : books'[other] = books[other]
               /\ \E id \in DOMAIN transactions' \ DOMAIN transactions :
                    /\ DOMAIN transactions' = DOMAIN transactions \cup {id}
                    /\ IsOpen(transactions'[id])
                    /\ transactions'[id].isbn = isbn
                    /\ transactions'[id].member_id = m
               /\ \A id \in DOMAIN transactions : transactions'[id] = transactions[id]
               /\ UNCHANGED <<members, fine_per_day>>
       /\ \A id \in DOMAIN transactions :
            (last'.op = "return_book" /\ ~Failed(last') /\ Call /\ return_book(id))
            => LET isbn == transactions[id].isbn IN
               /\ DOMAIN books' = DOMAIN books
               /\ books'[isbn] = [books[isbn] EXCEPT !.available_copies = @ + 1]
               /\ \A other \in DOMAIN books \ {isbn} : books'[other] = books[other]
               /\ DOMAIN transactions' = DOMAIN transactions
               /\ IsOpen(transactions[id]) /\ ~IsOpen(transactions'[id])
               /\ \A other \in DOMAIN transactions \ {id} :
                    transactions'[other] = transactions[other]
               /\ UNCHANGED <<members, fine_per_day>>]_vars

\* A return has closed one of two loans of one book while the other loan
\* and a member stand by.
C10_Witness ==
    /\ last.op = "return_book"
    /\ ~Failed(last)
    /\ Cardinality(DOMAIN books) = 2
    /\ \E id, other \in DOMAIN transactions :
        /\ ~IsOpen(transactions[id])
        /\ IsOpen(transactions[other])
        /\ transactions[id].isbn = transactions[other].isbn

-----------------------------------------------------------------------------
\* What issue_book and return_book calls that succeed between two add_book
\* calls do to the book they are about.
InBetween == {"none", "issue", "return", "issue, issue", "issue, return"}

Loans(b, calls) ==
    CASE calls = "none"          -> b
      [] calls = "issue"         -> Lent(b)
      [] calls = "return"        -> Restored(b)
      [] calls = "issue, issue"  -> Lent(Lent(b))
      [] calls = "issue, return" -> Restored(Lent(b))

Counts(b) == <<b.total_copies, b.available_copies>>

Description(b) == <<b.title, b.authors, b.pub_year, b.tags>>

-----------------------------------------------------------------------------
\* The Library object: its three collections and its configured rate.
Catalog ==
    [books |-> books, members |-> members, transactions |-> transactions,
     fine_per_day |-> fine_per_day]

\* C12: in every reachable state, load of what save writes is a catalog
\* equal to the saved one: the same books, members and transactions, field
\* by field, and the same fine_per_day.
C12_RoundTrip == load(save(books, members, transactions)) = Catalog

-----------------------------------------------------------------------------
\* The persisted part of a catalog.
Collections(c) == <<c.books, c.members, c.transactions>>

\* C13: when a POST request to the add_book, add_member, issue or return
\* handler has completed and the Library call succeeded, the document in the
\* file holds exactly the books, members and transactions held in memory;
\* when the Library call failed, the file, the books, the members and the
\* transactions are what they were before the request.
C13_SavedAfterRequest ==
    [][(PostAddBook \/ PostAddMember \/ PostIssue \/ PostReturn)
         => IF Failed(last')
            THEN UNCHANGED <<disk, books, members, transactions>>
            ELSE /\ disk' # NoFile
                 /\ Collections(load(disk')) = Collections(Catalog')]_vars

\* A return request has failed on a transaction that the file and the memory
\* both hold as returned, after requests that succeeded.
C13_Witness ==
    /\ last.op = "return_book"
    /\ Failed(last)
    /\ disk # NoFile
    /\ \E id \in DOMAIN transactions : ~IsOpen(transactions[id])
    /\ Collections(load(disk)) = Collections(Catalog)

-----------------------------------------------------------------------------
\* C14: when the two concurrent requests are issue_book calls for one book,
\* which has exactly one available copy as they arrive, then at every point
\* of every interleaving at most one of the calls has succeeded and the
\* book's available_copies is not negative.
C14_IssueAtomic ==
    \A isbn \in DOMAIN books :
        (\A t \in Threads : threads[t].op = "issue_book" /\ threads[t].isbn = isbn)
        => /\ Cardinality({t \in Threads : Succeeded(t)}) <= 1
           /\ books[isbn].available_copies >= 0

\* C15: when the two concurrent requests are return_book calls for one
\* transaction, which is open as they arrive, then at every point of every
\* interleaving the book's available_copies is at most its total_copies,
\* and when both calls are over exactly one of them has succeeded and
\* available_copies is 1 more than it was, which is total_copies less the
\* loans still open.
C15_ReturnAtomic ==
    \A id \in DOMAIN transactions :
        (\A t \in Threads : threads[t].op = "return_book" /\ threads[t].txn_id = id)
        => LET b == books[transactions[id].isbn] IN
           /\ b.available_copies <= b.total_copies
           /\ (\A t \in Threads : Finished(t))
                => /\ Cardinality({t \in Threads : Succeeded(t)}) = 1
                   /\ b.available_copies = 2
                   /\ b.available_copies
                        = b.total_copies - Cardinality(OpenTxns(transactions[id].isbn))

-----------------------------------------------------------------------------
\* C16: the transaction created by a successful issue_book(member_id, isbn,
\* days) has its due_on exactly days calendar days after its issued_on,
\* whether or not the date changes while the call runs.
C16_DueAfterDays ==
    [][\A m \in DOMAIN members, isbn \in DOMAIN books,
            days \in DaysChoices, midnight \in BOOLEAN :
         (last'.op = "issue_book" /\ ~Failed(last')
             /\ Call /\ issue_book(m, isbn, days, midnight))
         => \A id \in DOMAIN transactions' \ DOMAIN transactions :
              LET t == transactions'[id] IN
              /\ ~Before(t.due_on, t.issued_on)
              /\ DaysAfter(t.issued_on, t.due_on) = days]_vars

-----------------------------------------------------------------------------
\* C17: in every reachable state (fine_per_day is 1 or 2), every
\* transaction's fine_paid is at least 0; it is 0 while returned_on is
\* absent; once returned it is max(0, returned_on - due_on in calendar days)
\* * fine_per_day, and it is positive only if returned_on is later than due_on.
C17_FineConsistent ==
    \A id \in DOMAIN transactions :
        LET t == transactions[id] IN
        /\ t.fine_paid >= 0
        /\ IsOpen(t) => t.fine_paid = 0
        /\ ~IsOpen(t) => t.fine_paid = DaysAfter(t.due_on, t.returned_on) * fine_per_day
        /\ t.fine_paid > 0 => (~IsOpen(t) /\ Before(t.due_on, t.returned_on))

\* One loan was returned two days late and charged for two days, beside a
\* rate of 2 a day.
C17_Witness ==
    /\ fine_per_day = 2
    /\ \E id \in DOMAIN transactions :
        LET t == transactions[id] IN
        /\ ~IsOpen(t)
        /\ t.returned_on = NextDay(NextDay(t.due_on))
        /\ t.fine_paid = 4

-----------------------------------------------------------------------------
\* C18: after every step from the empty catalog, every transaction's
\* member_id is a key of members and its isbn a key of books, and every
\* return_book of an open transaction succeeds.
C18_ReferencesHold ==
    [][/\ \A id \in DOMAIN transactions' :
            /\ transactions'[id].member_id \in DOMAIN members'
            /\ transactions'[id].isbn \in DOMAIN books'
       /\ \A id \in DOMAIN transactions :
            (last'.op = "return_book" /\ IsOpen(transactions[id])
                /\ Call /\ return_book(id))
            => /\ ~Failed(last')
               /\ ~IsOpen(transactions'[id])]_vars

\* With two members and two books in the catalog, a loan of the second
\* member has been returned.
C18_Witness ==
    /\ last.op = "return_book"
    /\ ~Failed(last)
    /\ Cardinality(DOMAIN members) = 2
    /\ Cardinality(DOMAIN books) = 2
    /\ \E id \in DOMAIN transactions :
        /\ ~IsOpen(transactions[id])
        /\ transactions[id].member_id = 2

-----------------------------------------------------------------------------
\* C19: no step removes an ISBN from books or a member_id from members or
\* changes a field of an existing member, and add_member stores the new
\* member under an id that was not a key of members.
C19_OnlyGrow ==
    [][/\ DOMAIN books \subseteq DOMAIN books'
       /\ DOMAIN members \subseteq DOMAIN members'
       /\ \A m \in DOMAIN members : members'[m] = members[m]
       /\ \A name \in Names :
            (last'.op = "add_member" /\ Call /\ add_member(name, None, None))
            => \E id \in DOMAIN members' \ DOMAIN members :
                 /\ DOMAIN members' = DOMAIN members \cup {id}
                 /\ members'[id].member_id = id
                 /\ last'.ret = <<id>>]_vars

\* A second member has joined on a later day than the first, after a loan
\* to the first.
C19_Witness ==
    /\ last.op = "add_member"
    /\ transactions # <<>>
    /\ \E a, b \in DOMAIN members :
        Before(members[a].joined_on, members[b].joined_on)

====
